---- MODULE Spec2Model ----
(***************************************************************************)
(* BurkinaHeritage: the retrieval-and-answer service (backend/main.py,     *)
(* backend/rag_simple.py) as a state machine.                              *)
(*                                                                         *)
(* Strings are modelled at the granularity the code observes them:         *)
(*   - a question is a sequence of tokens (words and single spaces);       *)
(*   - a text (document content, LLM text, answer) is a sequence of chunks *)
(*     [k, v, n, w]: kind, payload, number of characters, number of words. *)
(* The vector store's ranking and the hosted LLM are the environment:      *)
(* each call to them is one step whose outcome is chosen with \E.          *)
(***************************************************************************)
EXTENDS Integers, Sequences, FiniteSets, TLC

VARIABLES
    corpusFile,     \* data/corpus.json: NoFile or the list of documents in it
    chroma,         \* data/chroma_db: collection name -> list of stored entries
    geminiEnv,      \* GEMINI_API_KEY is set and google-genai is importable
    serverState,    \* "created" | "serving" | "failed"
    rag_system,     \* main.py's global: None or the BurkinaHeritageRAGSimple
    askRet,         \* how the call of rag_system.ask of this request ended
    pc,             \* the request in flight: "idle" | "search" | "llm" | "expand" | "done"
    req,            \* the /api/chat request being (or last) handled
    needs_db,       \* ask's local
    docs,           \* ask's local: the result of search_documents
    prompt,         \* generate_answer_hf's local: the prompt built for the LLM
    llmOut,         \* what the LLM call of this request did (NoCall before it)
    expanded_docs,  \* generate_answer_hf's local, widened search
    termIdx,        \* index into general_terms of the next widened query
    searchArgs,     \* arguments of the search_documents call of this request
    storeQueries,   \* arguments of the collection.query calls of this request
    llmCalls,       \* number of generate_content calls of this request
    resp,           \* the HTTP response of the last handled request
    probe,          \* history variable: one earlier /api/chat exchange, kept for comparison
    libRet,         \* the last direct call of a method of the instance and what it returned
    addCalls,       \* the collection.add calls of _index_documents, one list of ids per call
    rebuild,        \* rebuild_database.py: the state of one run of the script
    csvRun          \* prepare_data_csv.py: the state of one run of the script

vars == <<corpusFile, chroma, geminiEnv, serverState, rag_system, askRet, pc, req,
          needs_db, docs, prompt, llmOut, expanded_docs, termIdx, searchArgs,
          storeQueries, llmCalls, resp, probe, libRet, addCalls, rebuild, csvRun>>

----------------------------------------------------------------------------
(* Bounds of the model *)

\* a question has up to MaxPad spaces before and after its words
MaxPad == 1
\* a request's n_results ranges over 1..MaxN
MaxN == 2
\* a request carries at most MaxHist conversation turns
MaxHist == 8
\* a direct call of search_documents asks for 1..MaxSearchN documents
MaxSearchN == 6
\* a direct call of _fallback_answer is given at most MaxContext documents
MaxContext == 4
\* the corpus files indexed at startup hold 0..MaxCorpus documents, or one more
\* than the service loads
MaxCorpus == 21

----------------------------------------------------------------------------
(* Program constants *)

MinQuestionLen == 3         \* main.py: len(request.question.strip()) < 3
AskNResults == 5            \* ask: search_documents(question, n_results=5)
FetchFactor == 3            \* search_documents: n_results * 3
MaxFetch == 15              \* search_documents: min(n_fetch, 15)
MaxSources == 3             \* ask: docs[:3]
MaxContextDocs == 3         \* generate_answer_hf: context_docs[:3]
MinLlmAnswerLen == 30       \* generate_answer_hf: len(answer) > 30
ExpandNResults == 3         \* generate_answer_hf: widened query n_results=3
ExpandKeep == 5             \* generate_answer_hf: expanded_docs[:5]
BestDocs == 3               \* _fallback_answer: context_docs[:3]
MaxWords == 250             \* _fallback_answer: max_words
MinSentenceLen == 25        \* _fallback_answer: len(sentence) < 25
MaxSentences == 4           \* _fallback_answer: len(combined_content) >= 4
FirstContentCut == 400      \* _fallback_answer: first_content[:400]
MaxAnswerLen == 600         \* _fallback_answer: len(answer) > 600
TruncateTo == 597           \* _fallback_answer: answer[:597]
MaxDocs == 100              \* __init__: max_docs
HistorySpan == 7            \* generate_answer_hf: conversation_history[-7:-1]
HistoryContentCut == 150    \* generate_answer_hf: content[:150]
ContextContentCut == 500    \* generate_answer_hf: doc['content'][:500]

----------------------------------------------------------------------------
(* Generic helpers *)

Min(a, b) == IF a < b THEN a ELSE b

Max(a, b) == IF a < b THEN b ELSE a

\* Python's s[:n] on a list
Take(s, n) == SubSeq(s, 1, Min(n, Len(s)))

RECURSIVE SumLen(_)
SumLen(t) == IF t = <<>> THEN 0 ELSE Head(t).n + SumLen(Tail(t))

RECURSIVE Concat(_)
\* the sequences of a sequence, one after the other
Concat(ss) == IF ss = <<>> THEN <<>> ELSE Head(ss) \o Concat(Tail(ss))

RECURSIVE SumWords(_)
SumWords(t) == IF t = <<>> THEN 0 ELSE Head(t).w + SumWords(Tail(t))

\* a chunk of text: kind, payload, characters, words
Chunk(k, v, n, w) == [k |-> k, v |-> v, n |-> n, w |-> w]

\* a run of n whitespace characters
Ws(n) == Chunk("ws", "", n, 0)

\* a literal of the program
Lit(v, n) == Chunk("lit", v, n, 1)

\* len(text)
TextLen(t) == SumLen(t)

RECURSIVE LStrip(_)
LStrip(t) == IF t # <<>> /\ Head(t).k = "ws" THEN LStrip(Tail(t)) ELSE t

RECURSIVE RStrip(_)
RStrip(t) ==
    IF t # <<>> /\ t[Len(t)].k = "ws" THEN RStrip(SubSeq(t, 1, Len(t) - 1)) ELSE t

\* str.strip() on a text
StripText(t) == RStrip(LStrip(t))

----------------------------------------------------------------------------
(* Questions: sequences of tokens. Accents are dropped in the model's      *)
(* spelling of the program's words.                                        *)

SP == " "

\* str.lower() on one token
LowerTok(t) ==
    CASE t = "Hi" -> "hi"
      [] t = "Bonjour" -> "bonjour"
      [] t = "Oui" -> "oui"
      [] t = "Y" -> "y"
      [] OTHER -> t

\* str.lower()
LowerQ(q) == [i \in 1..Len(q) |-> LowerTok(q[i])]

RECURSIVE LStripQ(_)
LStripQ(q) == IF q # <<>> /\ Head(q) = SP THEN LStripQ(Tail(q)) ELSE q

RECURSIVE RStripQ(_)
RStripQ(q) ==
    IF q # <<>> /\ q[Len(q)] = SP THEN RStripQ(SubSeq(q, 1, Len(q) - 1)) ELSE q

\* str.strip()
StripQ(q) == RStripQ(LStripQ(q))

RECURSIVE QLen(_)
\* len(question)
QLen(q) == IF q = <<>> THEN 0 ELSE Len(Head(q)) + QLen(Tail(q))

\* the words of the program's keyword lists that occur in a (lower-case) token
Occurs(t) ==
    CASE t = "culture" -> {"culture"}
      [] t = "masque" -> {"masque"}
      [] t = "maison" -> {"maison"}
      [] t = "sankara" -> {"sankara"}
      [] OTHER -> {}

\* any(kw in question_lower for kw in kws)
AnyKeyword(kws, qlower) == \E i \in 1..Len(qlower) : Occurs(qlower[i]) \cap kws # {}

cultural_keywords ==
    {"griot", "balafon", "djembe", "kora", "musique", "danse", "tradition",
     "masque", "fespaco", "siao", "artisan", "tissage", "poterie", "bronze",
     "ceremonie", "rite", "ancetre", "chef", "roi", "royaume", "ethnie",
     "mossi", "peul", "bobo", "lobi", "gourounsi", "touareg"}

architectural_keywords ==
    {"grenier", "case", "maison", "habitat", "construction", "architecture",
     "mosquee", "batiment", "edifice", "banco", "terre", "paille"}

keywords_requiring_search ==
    cultural_keywords \cup architectural_keywords \cup
    {"histoire", "independance", "thomas sankara", "sankara", "mogho naba",
     "empire", "colonial", "francais", "guerre",
     "ouagadougou", "bobo-dioulasso", "banfora", "ville", "region",
     "qui est", "qu'est-ce que", "c'est quoi", "parle-moi de",
     "explique", "raconte", "definition", "signification"}

simple_greetings == {"bonjour", "salut", "bonsoir", "coucou", "hey", "hello", "hi"}

what_words == {"qu'est-ce", "c'est quoi", "what is", "definition"}

general_culture_words == {"culture", "traditions", "patrimoine", "burkinab"}

\* _needs_database_search(question)
NeedsDatabaseSearch(question) ==
    AnyKeyword(keywords_requiring_search, StripQ(LowerQ(question)))

\* ask: question_lower in simple_greetings
IsSimpleGreeting(question) ==
    LET ql == StripQ(LowerQ(question))
    IN  Len(ql) = 1 /\ ql[1] \in simple_greetings

\* the words of the questions the model asks
Cores ==
    { <<>>, <<"a">>, <<"Hi">>, <<"Bonjour">>, <<"merci">>, <<"culture">>,
      <<"masque">>, <<"maison">>, <<"masque", SP, "maison">>, <<"sankara">> }

Pad(n) == [i \in 1..n |-> SP]

Questions == { Pad(n) \o c \o Pad(n) : n \in 0..MaxPad, c \in Cores }

----------------------------------------------------------------------------
(* Documents, the corpus file and the vector store *)

\* a sentence of a document, as re.split(r'[.!?]\s+') yields it
Sent(v, n, w) == Chunk("sent", v, n, w)

\* the last sentence of a content that ends with '.', '!' or '?'
SentP(v, n, w) == Chunk("sentp", v, n, w)

Doc(id, title, source, category, content) ==
    [id |-> id, title |-> title, source |-> source, category |-> category,
     content |-> content]

DocMasks == Doc(1, "Masques", "masques.pdf - page 1", "culture",
                <<Sent("m1", 40, 6), SentP("m2", 60, 9)>>)

DocHuts == Doc(2, "Cases", "cases.pdf - page 4", "architecture",
               <<SentP("h1", 50, 8)>>)

DocShort == Doc(3, "Dates", "dates.pdf - page 2", "histoire",
                <<SentP("k1", 10, 2)>>)

DocBlank == Doc(4, "Vide", "vide.pdf - page 9", "culture", <<Ws(2)>>)

\* data/corpus.json is absent
NoFile == [exists |-> FALSE, docs |-> <<>>]

File(documents) == [exists |-> TRUE, docs |-> documents]

\* what data/corpus.json may hold when the service starts
CorpusFiles ==
    { NoFile,
      File(<<>>),
      File(<<DocBlank, DocShort>>),
      File(<<DocHuts, DocMasks, DocShort, DocBlank>>) }

CollectionName == "burkina_culture"

\* _index_documents: what collection.add stores for one document
Entry(doc) ==
    [id |-> <<"doc", doc.id>>,
     document |-> doc.content,
     metadata |-> [title |-> doc.title, source |-> doc.source,
                   category |-> doc.category]]

\* collections data/chroma_db may hold before the service starts
ExistingStores ==
    { <<>>,
      [c \in {CollectionName} |-> <<Entry(DocHuts)>>] }

HasCollection(store, name) == name \in DOMAIN store

\* the ranked lists the store's similarity search may produce for one query:
\* the stored entries from the first to the last, or from the last to the first
Rankings(entries) ==
    { entries, [i \in 1..Len(entries) |-> entries[Len(entries) + 1 - i]] }

\* collection.query(query_texts=[q], n_results=n) as search code reads it:
\* the items results['documents'][0][i], results['metadatas'][0][i]
QueryResults(entries, n) ==
    { [i \in 1..Min(n, Len(r)) |->
          [content |-> r[i].document, metadata |-> r[i].metadata]] :
      r \in Rankings(entries) }

RECURSIVE FilterLoop(_, _, _, _)
\* search_documents: the loop over the store's results
FilterLoop(results, skipArchitecture, n_results, documents) ==
    IF results = <<>> THEN documents
    ELSE LET doc == Head(results)
         IN  IF skipArchitecture /\ doc.metadata.category = "architecture"
             THEN FilterLoop(Tail(results), skipArchitecture, n_results, documents)
             ELSE IF Len(documents) + 1 >= n_results
                  THEN Append(documents, doc)
                  ELSE FilterLoop(Tail(results), skipArchitecture, n_results,
                                  Append(documents, doc))

PreferCulture(query) == AnyKeyword(cultural_keywords, LowerQ(query))

PreferArchitecture(query) == AnyKeyword(architectural_keywords, LowerQ(query))

\* search_documents: the n_results given to collection.query
NFetch(query, n_results) ==
    Min(IF PreferCulture(query) \/ PreferArchitecture(query)
        THEN n_results * FetchFactor ELSE n_results, MaxFetch)

\* search_documents without the category filter
SearchResultUnfiltered(query, n_results, results) == Take(results, n_results)

\* search_documents: the documents returned for the store's results
SearchResult(query, n_results, results) ==
    Take(FilterLoop(results, PreferCulture(query) /\ ~PreferArchitecture(query),
                    n_results, <<>>), n_results)

----------------------------------------------------------------------------
(* _fallback_answer: the template answer built without the LLM *)

SorryNotFound == <<Lit("sorry_not_found", 180)>>

SorryNoInformation == <<Lit("sorry_no_information", 278)>>

\* _fallback_answer: intro
Intro(question) ==
    LET ql == LowerQ(question)
    IN  IF AnyKeyword(what_words, ql) THEN <<Lit("intro_what", 32), Ws(1)>>
        ELSE IF AnyKeyword(general_culture_words, ql) THEN <<Lit("intro_culture", 33), Ws(1)>>
        ELSE <<>>

\* re.split(r'[.!?]\s+', content), each piece stripped
Sentences(content) == SelectSeq(content, LAMBDA c : c.k \in {"sent", "sentp"})

InSeq(x, s) == \E i \in 1..Len(s) : s[i] = x

RECURSIVE ScanSentences(_, _)
\* the loop over the sentences of one document; acc = [combined, total_words]
ScanSentences(sentences, acc) ==
    IF sentences = <<>> THEN acc
    ELSE LET sentence == Head(sentences)
         IN  IF sentence.n < MinSentenceLen \/ InSeq(sentence, acc.combined)
             THEN ScanSentences(Tail(sentences), acc)
             ELSE IF acc.total_words + sentence.w > MaxWords
             THEN acc
             ELSE LET nxt == [combined |-> Append(acc.combined, sentence),
                              total_words |-> acc.total_words + sentence.w]
                  IN  IF Len(nxt.combined) >= MaxSentences
                      THEN nxt
                      ELSE ScanSentences(Tail(sentences), nxt)

RECURSIVE ScanDocs(_, _)
\* the loop over best_docs
ScanDocs(best_docs, acc) ==
    IF best_docs = <<>> THEN acc
    ELSE LET content == StripText(Head(best_docs).content)
         IN  IF content = <<>>
             THEN ScanDocs(Tail(best_docs), acc)
             ELSE LET nxt == ScanSentences(Sentences(content), acc)
                  IN  IF nxt.total_words >= MaxWords \/ Len(nxt.combined) >= MaxSentences
                      THEN nxt
                      ELSE ScanDocs(Tail(best_docs), nxt)

RECURSIVE Join(_)
\* ' '.join(combined_content)
Join(ss) ==
    IF Len(ss) <= 1 THEN ss ELSE <<Head(ss), Ws(1)>> \o Join(Tail(ss))

\* text[:n] that cuts nothing
CutNothing(t, n) == t

\* text[:n]
Cut(t, n) == IF TextLen(t) <= n THEN t ELSE <<Chunk("cut", ToString(t), n, 0)>>

EndsWithPunctuation(t) == t # <<>> /\ t[Len(t)].k = "sentp"

\* _fallback_answer(context_docs, question)
FallbackAnswer(context_docs, question) ==
    IF context_docs = <<>> THEN SorryNotFound
    ELSE LET best_docs == Take(context_docs, BestDocs)
             intro == Intro(question)
             acc == ScanDocs(best_docs, [combined |-> <<>>, total_words |-> 0])
             first_content == best_docs[1].content
             answer == StripText(intro \o Join(acc.combined))
             ended == IF EndsWithPunctuation(answer) THEN answer
                      ELSE Append(answer, Lit(".", 1))
         IN  IF acc.combined = <<>>
             THEN IF TextLen(first_content) > FirstContentCut
                  THEN intro \o StripText(Cut(first_content, FirstContentCut))
                             \o <<Lit("...", 3)>>
                  ELSE intro \o first_content
             ELSE IF TextLen(ended) > MaxAnswerLen
                  THEN Cut(ended, TruncateTo) \o <<Lit("...", 3)>>
                  ELSE ended

----------------------------------------------------------------------------
(* generate_answer_hf: the prompt and the LLM's outcomes *)

Turn(role, content) == [role |-> role, content |-> content]

\* the conversation histories the model sends: n alternating turns
History(n) ==
    [i \in 1..n |-> Turn(IF i % 2 = 1 THEN "user" ELSE "assistant",
                         <<Lit(ToString(i), 20)>>)]

\* none, one or two turns, and as many as the prompt keeps or more
Histories == { History(n) : n \in {0, 1, 2} \cup (HistorySpan..MaxHist) }

\* conversation_history[-6:], the current question's turn included
RecentHistoryWithLast(h) ==
    IF Len(h) > 1 THEN SubSeq(h, Max(1, Len(h) - HistorySpan + 2), Len(h))
    ELSE <<>>

\* conversation_history[-7:-1]
RecentHistory(h) ==
    IF Len(h) > 1 THEN SubSeq(h, Max(1, Len(h) - HistorySpan + 1), Len(h) - 1)
    ELSE <<>>

\* history_lines
HistoryLines(h) ==
    LET recent == RecentHistory(h)
    IN  [i \in 1..Len(recent) |->
           [role |-> IF recent[i].role = "user" THEN "Utilisateur" ELSE "Assistant",
            content |-> Cut(recent[i].content, HistoryContentCut)]]

\* the prompt with every context document in it, not the first three only
BuildPromptAllDocs(question, context_docs, conversation_history) ==
    [has_context |-> Len(context_docs) > 0,
     has_history |-> HistoryLines(conversation_history) # <<>>,
     history |-> HistoryLines(conversation_history),
     context |-> [i \in 1..Len(context_docs) |->
                    Cut(context_docs[i].content, ContextContentCut)],
     question |-> question]

\* the prompt: which of the four templates, and what fills it
BuildPrompt(question, context_docs, conversation_history) ==
    LET ctx == Take(context_docs, MaxContextDocs)
    IN  [has_context |-> Len(context_docs) > 0,
         has_history |-> HistoryLines(conversation_history) # <<>>,
         history |-> HistoryLines(conversation_history),
         context |-> [i \in 1..Len(ctx) |-> Cut(ctx[i].content, ContextContentCut)],
         question |-> question]

NoPrompt ==
    [has_context |-> FALSE, has_history |-> FALSE, history |-> <<>>,
     context |-> <<>>, question |-> <<>>]

LlmText(v, n) == Chunk("llm", v, n, 1)

\* response.text of the LLM, as the model draws it
LlmTexts ==
    { <<>>,
      <<Ws(1), LlmText("short", MinLlmAnswerLen), Ws(1)>>,
      <<Ws(1), LlmText("long", MinLlmAnswerLen + 1)>> }

\* what str(e) of a failed LLM call may contain
LlmErrors == { {}, {"503"}, {"quota", "503"}, {"api key"}, {"connection"} }

LlmOutcome(kind, text, markers) == [kind |-> kind, text |-> text, markers |-> markers]

NoCall == LlmOutcome("nocall", <<>>, {})

LlmOutcomes ==
    { LlmOutcome("text", t, {}) : t \in LlmTexts } \cup
    { LlmOutcome("raise", <<>>, m) : m \in LlmErrors }

\* generate_answer_hf: the except branch choosing gemini_error_message
ErrorMessage(markers) ==
    IF markers \cap {"503", "overloaded"} # {} THEN <<Lit("err_overloaded", 91)>>
    ELSE IF markers \cap {"429", "quota", "rate"} # {} THEN <<Lit("err_quota", 75)>>
    ELSE IF markers \cap {"401", "unauthorized", "api key"} # {} THEN <<Lit("err_config", 75)>>
    ELSE IF markers \cap {"network", "connection"} # {} THEN <<Lit("err_network", 89)>>
    ELSE <<Lit("err_unavailable", 86)>>

\* gemini_error_message left at None by the except branch
GeminiErrorMessageDropped(out) == <<>>

\* gemini_error_message after the LLM step (empty: None)
GeminiErrorMessage(out) ==
    IF out.kind = "raise" THEN ErrorMessage(out.markers) ELSE <<>>

\* a text of 30 characters is long enough too
LlmAcceptedFrom30(out) ==
    out.kind = "text" /\ TextLen(StripText(out.text)) >= MinLlmAnswerLen

\* the LLM's text is returned as the answer
LlmAccepted(out) ==
    out.kind = "text" /\ TextLen(StripText(out.text)) > MinLlmAnswerLen

HeaderContext == <<Ws(2), Lit("hdr_found_in_database", 66), Ws(2)>>

HeaderGeneral == <<Ws(2), Lit("hdr_general_information", 54), Ws(2)>>

\* generate_answer_hf, fallback with context (lines 443-450)
AnswerWithContext(context_docs, question, err) ==
    IF err # <<>>
    THEN err \o HeaderContext \o FallbackAnswer(context_docs, question)
    ELSE FallbackAnswer(context_docs, question)

\* generate_answer_hf, fallback without context (lines 478-488)
AnswerWithoutContext(expanded, question, err) ==
    IF expanded # <<>>
    THEN IF err # <<>>
         THEN err \o HeaderGeneral \o FallbackAnswer(Take(expanded, ExpandKeep), question)
         ELSE FallbackAnswer(Take(expanded, ExpandKeep), question)
    ELSE (IF err # <<>> THEN err \o <<Ws(2)>> ELSE <<>>) \o SorryNoInformation

general_terms == <<"Burkina Faso culture traditions", "histoire Burkina Faso",
                   "patrimoine burkinabe">>

----------------------------------------------------------------------------
(* ask: sources and the final answer *)

GreetingAnswer == <<Lit("greeting", 125)>>

\* ask: sources taken from every document found, not from docs[:3]
SourcesUncapped(ndb, dcs) ==
    IF ndb /\ dcs # <<>>
    THEN [i \in 1..Len(dcs) |->
            [title |-> dcs[i].metadata.title,
             source |-> dcs[i].metadata.source,
             category |-> dcs[i].metadata.category]]
    ELSE <<>>

\* ask: sources
Sources(ndb, dcs) ==
    IF ndb /\ dcs # <<>>
    THEN [i \in 1..Min(MaxSources, Len(dcs)) |->
            [title |-> dcs[i].metadata.title,
             source |-> dcs[i].metadata.source,
             category |-> dcs[i].metadata.category]]
    ELSE <<>>

SourceLine(s) == Chunk("src", s.source, Len(s.source) + 2, 1)

RECURSIVE SourceLines(_)
\* "\n".join([f"- {s['source']}" for s in sources])
SourceLines(sources) ==
    IF sources = <<>> THEN <<>>
    ELSE IF Len(sources) = 1 THEN <<SourceLine(sources[1])>>
    ELSE <<SourceLine(Head(sources)), Ws(1)>> \o SourceLines(Tail(sources))

SourcesHeader == <<Ws(3), Lit("sources_header", 11), Ws(2)>>

\* ask: answer_with_sources
AnswerWithSources(answer, sources) ==
    IF sources # <<>>
    THEN StripText(answer) \o SourcesHeader \o SourceLines(sources)
    ELSE StripText(answer)

AskResult(question, answer, sources) ==
    [question |-> question, answer |-> answer, sources |-> sources]

NoResult == AskResult(<<>>, <<>>, <<>>)

\* how the call of ask ended: "notcalled" | "running" | "returned" | "raised"
AskState(state, result) == [state |-> state, result |-> result]

----------------------------------------------------------------------------
(* The service: main.py *)

\* rag_system = None
NoRag == [initialized |-> FALSE, corpus |-> <<>>, gemini_client |-> FALSE]

Request(question, use_llm, n_results, history) ==
    [question |-> question, use_llm |-> use_llm, n_results |-> n_results,
     conversation_history |-> history]

NoRequest == Request(<<>>, FALSE, 0, <<>>)

Requests ==
    { Request(q, u, n, h) :
        q \in Questions, u \in BOOLEAN, n \in 1..MaxN, h \in Histories }

Response(endpoint, status, body) ==
    [endpoint |-> endpoint, status |-> status, body |-> body]

NoResponse == Response("none", 0, <<>>)

NoSearch == [query |-> <<>>, n_results |-> 0]

\* one call of collection.query: who made it, its n_results, and how it ended
StoreCall(call, n, raised, items) ==
    [call |-> call, n |-> n, raised |-> raised, items |-> items]

NoProbe ==
    [taken |-> FALSE, otherSeen |-> FALSE, req |-> NoRequest, storeQueries |-> <<>>,
     llmOut |-> NoCall, prompt |-> NoPrompt, resp |-> NoResponse]

\* no method of the instance has been called directly
NoLibRet ==
    [fn |-> "none", query |-> <<>>, n |-> 0, calls |-> <<>>, raised |-> FALSE,
     docs |-> <<>>, kept |-> <<>>, text |-> <<>>]

\* rebuild_database.py is not running
NoRebuild ==
    [pc |-> "off", corpus |-> <<>>, answer |-> <<>>, dbExists |-> FALSE,
     backups |-> <<>>, deleted |-> FALSE, added |-> 0, errors |-> 0,
     exists0 |-> FALSE, db0 |-> <<>>]

\* prepare_data_csv.py is not running
NoCsvRun ==
    [pc |-> "off", csv |-> [exists |-> FALSE, rows |-> <<>>, raises |-> FALSE,
                            yielded |-> 0],
     corpus |-> <<>>, total_rows |-> 0, urls_unique |-> {}, outcome |-> "",
     sources |-> <<>>, file0 |-> NoFile]

BatchSize == 10

\* _index_documents stopping after its first batch
IndexFirstBatch(corpus, i) ==
    [j \in 1..Min(BatchSize, Len(corpus)) |-> Entry(corpus[j])]

RECURSIVE AddCalls(_, _)
\* _index_documents: the ids given to each collection.add, from document i on
AddCalls(corpus, i) ==
    IF i > Len(corpus) THEN <<>>
    ELSE LET batch == SubSeq(corpus, i, Min(i + BatchSize - 1, Len(corpus)))
         IN  <<[j \in 1..Len(batch) |-> Entry(batch[j]).id]>>
             \o AddCalls(corpus, i + BatchSize)

RECURSIVE IndexDocuments(_, _)
\* _index_documents: the entries added, batch after batch, from document i on
IndexDocuments(corpus, i) ==
    IF i > Len(corpus) THEN <<>>
    ELSE LET batch == SubSeq(corpus, i, Min(i + BatchSize - 1, Len(corpus)))
         IN  [j \in 1..Len(batch) |-> Entry(batch[j])]
             \o IndexDocuments(corpus, i + BatchSize)

\* the request-local state before any request
IdleLocals ==
    /\ req' = NoRequest
    /\ askRet' = AskState("notcalled", NoResult)
    /\ needs_db' = FALSE
    /\ docs' = <<>>
    /\ prompt' = NoPrompt
    /\ llmOut' = NoCall
    /\ llmCalls' = 0
    /\ expanded_docs' = <<>>
    /\ termIdx' = 0
    /\ searchArgs' = NoSearch
    /\ storeQueries' = <<>>

Init ==
    /\ corpusFile \in CorpusFiles
    /\ chroma \in ExistingStores
    /\ geminiEnv \in BOOLEAN
    /\ serverState = "created"
    /\ rag_system = NoRag
    /\ pc = "idle"
    /\ req = NoRequest
    /\ askRet = AskState("notcalled", NoResult)
    /\ needs_db = FALSE
    /\ docs = <<>>
    /\ prompt = NoPrompt
    /\ llmOut = NoCall
    /\ llmCalls = 0
    /\ expanded_docs = <<>>
    /\ termIdx = 0
    /\ searchArgs = NoSearch
    /\ storeQueries = <<>>
    /\ resp = NoResponse
    /\ probe = NoProbe
    /\ libRet = NoLibRet
    /\ addCalls = <<>>
    /\ rebuild = NoRebuild
    /\ csvRun = NoCsvRun

\* startup_event with BurkinaHeritageRAGSimple.__init__; reraises: the handler's
\* except branch ends with raise
StartupWith(reraises) ==
    /\ serverState = "created"
    /\ pc = "idle"
    /\ IF ~corpusFile.exists
       THEN /\ serverState' = IF reraises THEN "failed" ELSE "serving"
            /\ rag_system' = NoRag
            /\ UNCHANGED <<chroma, addCalls>>
       ELSE LET corpus == Take(corpusFile.docs, MaxDocs)
            IN  /\ serverState' = "serving"
                /\ rag_system' = [initialized |-> TRUE, corpus |-> corpus,
                                  gemini_client |-> geminiEnv]
                /\ chroma' = IF HasCollection(chroma, CollectionName)
                             THEN chroma
                             ELSE [c \in {CollectionName} |-> IndexDocuments(corpus, 1)]
                /\ addCalls' = IF HasCollection(chroma, CollectionName)
                               THEN <<>>
                               ELSE AddCalls(corpus, 1)
    /\ IdleLocals
    /\ pc' = "idle"
    /\ resp' = NoResponse
    /\ UNCHANGED <<corpusFile, geminiEnv, probe, libRet, rebuild, csvRun>>

StartupSwallowing == StartupWith(FALSE)

Startup == StartupWith(TRUE)

\* the handlers run once the app object exists, and no more after a failed startup
Serving == serverState \in {"created", "serving"}

\* GET /api/health
HealthCheck ==
    /\ Serving
    /\ pc = "idle"
    /\ resp' = Response("health", 200,
                        [status |-> IF rag_system.initialized THEN "healthy" ELSE "error",
                         rag_initialized |-> rag_system.initialized,
                         total_documents |-> IF rag_system.initialized
                                             THEN Len(rag_system.corpus) ELSE 0])
    /\ IdleLocals
    /\ pc' = "done"
    /\ UNCHANGED <<corpusFile, chroma, geminiEnv, serverState, rag_system, probe, libRet, addCalls, rebuild, csvRun>>

\* get_stats: categories
Categories(corpus) ==
    LET cats == { corpus[i].category : i \in 1..Len(corpus) }
    IN  [c \in cats |-> Cardinality({ i \in 1..Len(corpus) : corpus[i].category = c })]

\* GET /api/stats
GetStats ==
    /\ Serving
    /\ pc = "idle"
    /\ resp' = IF ~rag_system.initialized
               THEN Response("stats", 503, [detail |-> "Systeme RAG non initialise"])
               ELSE Response("stats", 200,
                             [total_documents |-> Len(rag_system.corpus),
                              categories |-> Categories(rag_system.corpus)])
    /\ IdleLocals
    /\ pc' = "done"
    /\ UNCHANGED <<corpusFile, chroma, geminiEnv, serverState, rag_system, probe, libRet, addCalls, rebuild, csvRun>>

\* DELETE /api/clear; resets: the handler also empties the collection
ClearConversationWith(resets) ==
    /\ Serving
    /\ pc = "idle"
    /\ resp' = Response("clear", 200, [status |-> "success"])
    /\ IdleLocals
    /\ pc' = "done"
    /\ chroma' = IF resets /\ HasCollection(chroma, CollectionName)
                 THEN [c \in {CollectionName} |-> <<>>] ELSE chroma
    /\ UNCHANGED <<corpusFile, geminiEnv, serverState, rag_system, probe, libRet, addCalls, rebuild, csvRun>>

ClearConversationResetting == ClearConversationWith(TRUE)

ClearConversation == ClearConversationWith(FALSE)

----------------------------------------------------------------------------
(* POST /api/chat: chat, ask, search_documents, generate_answer_hf.        *)
(* The handler runs from one external call to the next in one step.        *)

\* chat: the response built from the result of ask
ChatOk(result) ==
    Response("chat", 200,
             [question |-> result.question, answer |-> result.answer,
              sources |-> result.sources])

\* ask returns; chat answers 200
FinishAsk(request, ndb, dcs, answer) ==
    LET sources == Sources(ndb, dcs)
        result == AskResult(request.question, AnswerWithSources(answer, sources), sources)
    IN  /\ askRet' = AskState("returned", result)
        /\ resp' = ChatOk(result)
        /\ pc' = "done"

\* ask raises; chat answers 500
FailAsk ==
    /\ askRet' = AskState("raised", NoResult)
    /\ resp' = Response("chat", 500, [detail |-> "Erreur"])
    /\ pc' = "done"

\* generate_answer_hf after the LLM section: the fallback
Fallback(request, ndb, dcs, out) ==
    IF dcs # <<>>
    THEN /\ FinishAsk(request, ndb, dcs,
                      AnswerWithContext(dcs, request.question, GeminiErrorMessage(out)))
         /\ termIdx' = 0
    ELSE /\ pc' = "expand"
         /\ termIdx' = 1
         /\ askRet' = AskState("running", NoResult)
         /\ resp' = NoResponse

\* chat: the turns of an earlier request are kept and put before the request's
ChatHistoryRemembered(request) ==
    IF probe.taken
    THEN probe.req.conversation_history \o request.conversation_history
    ELSE request.conversation_history

\* chat: the conversation history handed to ask
ChatHistory(request) == request.conversation_history

\* generate_answer_hf up to the LLM call
Generate(request, ndb, dcs) ==
    /\ prompt' = BuildPrompt(request.question, dcs, ChatHistory(request))
    /\ expanded_docs' = <<>>
    /\ IF rag_system.gemini_client
       THEN /\ pc' = "llm"
            /\ termIdx' = 0
            /\ askRet' = AskState("running", NoResult)
            /\ resp' = NoResponse
       ELSE Fallback(request, ndb, dcs, NoCall)

\* chat: which arguments of the request reach ask's search
SearchNResults(request) == AskNResults

\* chat: a question of fewer than 3 characters once stripped, without strip
TooShortUnstripped(question) == QLen(question) < MinQuestionLen

\* chat: not request.question or len(request.question.strip()) < 3
TooShort(question) == question = <<>> \/ QLen(StripQ(question)) < MinQuestionLen

\* chat up to the first external call of ask
ChatBegin(request) ==
    /\ Serving
    /\ pc = "idle"
    /\ req' = request
    /\ llmOut' = NoCall
    /\ llmCalls' = 0
    /\ storeQueries' = <<>>
    /\ docs' = <<>>
    /\ IF ~rag_system.initialized
       THEN /\ resp' = Response("chat", 503, [detail |-> "Systeme RAG non initialise"])
            /\ askRet' = AskState("notcalled", NoResult)
            /\ pc' = "done"
            /\ needs_db' = FALSE
            /\ searchArgs' = NoSearch
            /\ prompt' = NoPrompt
            /\ expanded_docs' = <<>>
            /\ termIdx' = 0
       ELSE IF TooShort(request.question)
       THEN /\ resp' = Response("chat", 400, [detail |-> "Question trop courte"])
            /\ askRet' = AskState("notcalled", NoResult)
            /\ pc' = "done"
            /\ needs_db' = FALSE
            /\ searchArgs' = NoSearch
            /\ prompt' = NoPrompt
            /\ expanded_docs' = <<>>
            /\ termIdx' = 0
       ELSE IF IsSimpleGreeting(request.question)
       THEN /\ askRet' = AskState("returned",
                                  AskResult(request.question, GreetingAnswer, <<>>))
            /\ resp' = ChatOk(AskResult(request.question, GreetingAnswer, <<>>))
            /\ pc' = "done"
            /\ needs_db' = FALSE
            /\ searchArgs' = NoSearch
            /\ prompt' = NoPrompt
            /\ expanded_docs' = <<>>
            /\ termIdx' = 0
       ELSE IF NeedsDatabaseSearch(request.question)
       THEN /\ needs_db' = TRUE
            /\ searchArgs' = [query |-> request.question,
                              n_results |-> SearchNResults(request)]
            /\ pc' = "search"
            /\ askRet' = AskState("running", NoResult)
            /\ resp' = NoResponse
            /\ prompt' = NoPrompt
            /\ expanded_docs' = <<>>
            /\ termIdx' = 0
       ELSE /\ needs_db' = FALSE
            /\ searchArgs' = NoSearch
            /\ Generate(request, FALSE, <<>>)
    /\ UNCHANGED <<corpusFile, chroma, geminiEnv, serverState, rag_system, probe, libRet, addCalls, rebuild, csvRun>>

\* search_documents: collection.query answers or raises, then ask goes on
SearchStep ==
    /\ pc = "search"
    /\ LET n == NFetch(searchArgs.query, searchArgs.n_results)
       IN  \/ /\ storeQueries' = Append(storeQueries, StoreCall("search", n, TRUE, <<>>))
              /\ docs' = <<>>
              /\ FailAsk
              /\ UNCHANGED <<prompt, expanded_docs, termIdx>>
           \/ \E results \in QueryResults(chroma[CollectionName], n) :
                /\ storeQueries' = Append(storeQueries, StoreCall("search", n, FALSE, results))
                /\ docs' = SearchResult(searchArgs.query, searchArgs.n_results, results)
                /\ Generate(req, needs_db, docs')
    /\ UNCHANGED <<corpusFile, chroma, geminiEnv, serverState, rag_system, probe,
                   libRet, addCalls, rebuild, csvRun,
                   req, needs_db, searchArgs, llmOut, llmCalls>>

\* generate_answer_hf: the LLM call; retry: a failed call is made again
LlmStepWith(retry) ==
    /\ pc = "llm"
    /\ \E out \in LlmOutcomes :
         /\ llmOut' = out
         /\ llmCalls' = llmCalls + 1
         /\ IF LlmAccepted(out)
            THEN /\ FinishAsk(req, needs_db, docs, StripText(out.text))
                 /\ UNCHANGED termIdx
            ELSE IF retry /\ llmCalls = 0
            THEN UNCHANGED <<pc, askRet, resp, termIdx>>
            ELSE Fallback(req, needs_db, docs, out)
    /\ UNCHANGED <<corpusFile, chroma, geminiEnv, serverState, rag_system, probe,
                   libRet, addCalls, rebuild, csvRun,
                   req, needs_db, docs, searchArgs, storeQueries, prompt,
                   expanded_docs>>

LlmStepRetrying == LlmStepWith(TRUE)

LlmStep == LlmStepWith(FALSE)

\* generate_answer_hf: one widened query; after the last one the answer is built
ExpandStep ==
    /\ pc = "expand"
    /\ \E out \in { StoreCall("expand", ExpandNResults, TRUE, <<>>) } \cup
                  { StoreCall("expand", ExpandNResults, FALSE, r) :
                      r \in QueryResults(chroma[CollectionName], ExpandNResults) } :
         /\ storeQueries' = Append(storeQueries, out)
         /\ expanded_docs' = expanded_docs \o out.items
         /\ termIdx' = termIdx + 1
         /\ IF termIdx = Len(general_terms)
            THEN FinishAsk(req, needs_db, docs,
                           AnswerWithoutContext(expanded_docs', req.question,
                                                GeminiErrorMessage(llmOut)))
            ELSE UNCHANGED <<pc, askRet, resp>>
    /\ UNCHANGED <<corpusFile, chroma, geminiEnv, serverState, rag_system, probe,
                   libRet, addCalls, rebuild, csvRun,
                   req, needs_db, docs, searchArgs, llmOut, llmCalls, prompt>>

\* the handler returns: the response is sent and its locals are gone
Return ==
    /\ pc = "done"
    /\ pc' = "idle"
    /\ resp' = NoResponse
    /\ IdleLocals
    /\ UNCHANGED <<corpusFile, chroma, geminiEnv, serverState, rag_system, probe, libRet, addCalls, rebuild, csvRun>>

Next ==
    \/ Startup
    \/ HealthCheck
    \/ GetStats
    \/ ClearConversation
    \/ \E request \in Requests : ChatBegin(request)
    \/ SearchStep
    \/ LlmStep
    \/ ExpandStep
    \/ Return

Spec == Init /\ [][Next]_vars

----------------------------------------------------------------------------
(* The methods of the instance called directly, as rag_simple.main and any  *)
(* importer of the module may do.                                          *)

\* rag.search_documents(query, n_results): collection.query answers or raises
SearchDocuments(query, n_results) ==
    /\ rag_system.initialized
    /\ pc = "idle"
    /\ libRet = NoLibRet
    /\ LET n == NFetch(query, n_results)
           call == [NoLibRet EXCEPT !.fn = "search_documents", !.query = query,
                                    !.n = n_results]
       IN  \/ libRet' = [call EXCEPT !.calls = <<StoreCall("search", n, TRUE, <<>>)>>,
                                     !.raised = TRUE]
           \/ \E results \in QueryResults(chroma[CollectionName], n) :
                libRet' = [call EXCEPT
                             !.calls = <<StoreCall("search", n, FALSE, results)>>,
                             !.docs = SearchResult(query, n_results, results)]
    /\ UNCHANGED <<corpusFile, chroma, geminiEnv, serverState, rag_system, askRet,
                   pc, req, needs_db, docs, prompt, llmOut, expanded_docs, termIdx,
                   searchArgs, storeQueries, llmCalls, resp, probe, addCalls, rebuild, csvRun>>

\* the caller drops what the call returned
LibReturn ==
    /\ libRet # NoLibRet
    /\ libRet' = NoLibRet
    /\ UNCHANGED <<corpusFile, chroma, geminiEnv, serverState, rag_system, askRet,
                   pc, req, needs_db, docs, prompt, llmOut, expanded_docs, termIdx,
                   searchArgs, storeQueries, llmCalls, resp, probe, addCalls, rebuild, csvRun>>

\* a caller of search_documents, with the arguments the model draws
CallSearchDocuments ==
    /\ libRet = NoLibRet
    /\ \E query \in Questions, n_results \in 1..MaxSearchN :
         SearchDocuments(query, n_results)

NextLib ==
    \/ Startup
    \/ CallSearchDocuments
    \/ LibReturn

SpecLib == Init /\ [][NextLib]_vars

\* documents as search hands them to _fallback_answer
ContextDoc(doc) == [content |-> doc.content, metadata |-> Entry(doc).metadata]

\* five long sentences: four of them pass 600 characters
DocLong == Doc(5, "Long", "long.pdf - page 1", "culture",
               [i \in 1..5 |-> Sent(ToString(i), 200, 30)])

\* three sentences of 120 words: the third passes 250 words
DocWordy == Doc(6, "Mots", "mots.pdf - page 1", "histoire",
                [i \in 1..3 |-> Sent(ToString(i), 700, 120)])

\* the same sentence twice
DocRepeat == Doc(7, "Echo", "echo.pdf - page 1", "culture",
                 <<Sent("m1", 40, 6), Sent("m1", 40, 6), SentP("m2", 60, 9)>>)

\* more than 400 characters and no sentence of 25
DocFlat == Doc(8, "Liste", "liste.pdf - page 1", "culture",
               [i \in 1..18 |-> Sent(ToString(i), 24, 4)])

ContextDocs ==
    { ContextDoc(d) : d \in { DocMasks, DocHuts, DocShort, DocBlank, DocLong,
                              DocWordy, DocRepeat, DocFlat } }

RECURSIVE ContextLists(_)
\* the lists of at most n context documents
ContextLists(n) ==
    IF n = 0 THEN { <<>> }
    ELSE LET shorter == ContextLists(n - 1)
         IN  shorter \cup { Append(l, d) : l \in { x \in shorter : Len(x) = n - 1 },
                                           d \in ContextDocs }

\* rag._fallback_answer(context_docs, question)
FallbackAnswerCall(context_docs, question) ==
    /\ rag_system.initialized
    /\ pc = "idle"
    /\ libRet = NoLibRet
    /\ libRet' = [NoLibRet EXCEPT
                    !.fn = "_fallback_answer",
                    !.query = question,
                    !.docs = context_docs,
                    !.kept = ScanDocs(Take(context_docs, BestDocs),
                                      [combined |-> <<>>, total_words |-> 0]).combined,
                    !.text = FallbackAnswer(context_docs, question)]
    /\ UNCHANGED <<corpusFile, chroma, geminiEnv, serverState, rag_system, askRet,
                   pc, req, needs_db, docs, prompt, llmOut, expanded_docs, termIdx,
                   searchArgs, storeQueries, llmCalls, resp, probe, addCalls, rebuild, csvRun>>

InitFallback ==
    /\ Init
    /\ corpusFile = File(<<>>)
    /\ chroma = <<>>
    /\ ~geminiEnv

\* a caller of _fallback_answer, with the arguments the model draws
CallFallbackAnswer ==
    /\ libRet = NoLibRet
    /\ rag_system.initialized
    /\ \E context_docs \in ContextLists(MaxContext),
          question \in { <<"merci">>, <<"culture">> } :
         FallbackAnswerCall(context_docs, question)

NextFallback ==
    \/ Startup
    \/ CallFallbackAnswer
    \/ LibReturn

SpecFallback == InitFallback /\ [][NextFallback]_vars

----------------------------------------------------------------------------
(* Two exchanges of one service compared: SpecPair keeps one /api/chat      *)
(* exchange in probe and lets the service go on with other requests.       *)

PairRequests ==
    { Request(q, TRUE, 1, h) : q \in { <<"masque">>, <<"merci">> },
                               h \in { History(0), History(2) } }

InitPair ==
    /\ Init
    /\ corpusFile = File(<<DocBlank, DocShort>>)
    /\ chroma = <<>>

\* keep the exchange that has just been handled
Capture ==
    /\ pc = "done"
    /\ resp.endpoint = "chat"
    /\ ~probe.taken
    /\ probe' = [taken |-> TRUE, otherSeen |-> FALSE, req |-> req,
                 storeQueries |-> storeQueries, llmOut |-> llmOut,
                 prompt |-> prompt, resp |-> resp]
    /\ UNCHANGED <<corpusFile, chroma, geminiEnv, serverState, rag_system, askRet,
                   pc, req, needs_db, docs, prompt, llmOut, expanded_docs, termIdx,
                   searchArgs, storeQueries, llmCalls, resp,
                   libRet, addCalls, rebuild, csvRun>>

\* note that a request with another conversation history has been handled since
NoteOther ==
    /\ pc = "done"
    /\ resp.endpoint = "chat"
    /\ probe.taken
    /\ ~probe.otherSeen
    /\ req.conversation_history # probe.req.conversation_history
    /\ probe' = [probe EXCEPT !.otherSeen = TRUE]
    /\ UNCHANGED <<corpusFile, chroma, geminiEnv, serverState, rag_system, askRet,
                   pc, req, needs_db, docs, prompt, llmOut, expanded_docs, termIdx,
                   searchArgs, storeQueries, llmCalls, resp,
                   libRet, addCalls, rebuild, csvRun>>

NextPair ==
    \/ Startup
    \/ HealthCheck
    \/ GetStats
    \/ ClearConversation
    \/ \E request \in PairRequests : ChatBegin(request)
    \/ SearchStep
    \/ LlmStep
    \/ ExpandStep
    \/ Return
    \/ Capture
    \/ NoteOther

SpecPair == InitPair /\ [][NextPair]_vars

----------------------------------------------------------------------------
(* Startup on corpus files of many sizes: the indexing of a new collection *)

NumberedDoc(i) ==
    Doc(i, "Titre", "corpus.pdf - page 1", "culture", <<SentP(ToString(i), 30, 5)>>)

\* a corpus of n documents with the ids 1..n, as the ingestion scripts number them
Corpus(n) == [i \in 1..n |-> NumberedDoc(i)]

\* the app object exists, startup has not run, no request was handled
NotStarted ==
    /\ serverState = "created"
    /\ rag_system = NoRag
    /\ pc = "idle"
    /\ req = NoRequest
    /\ askRet = AskState("notcalled", NoResult)
    /\ needs_db = FALSE
    /\ docs = <<>>
    /\ prompt = NoPrompt
    /\ llmOut = NoCall
    /\ llmCalls = 0
    /\ expanded_docs = <<>>
    /\ termIdx = 0
    /\ searchArgs = NoSearch
    /\ storeQueries = <<>>
    /\ resp = NoResponse
    /\ probe = NoProbe
    /\ libRet = NoLibRet
    /\ addCalls = <<>>

InitIndex ==
    /\ corpusFile \in { NoFile, File(Corpus(MaxDocs + 1)) } \cup
                       { File(Corpus(n)) : n \in 0..MaxCorpus }
    /\ chroma \in ExistingStores
    /\ geminiEnv \in BOOLEAN
    /\ NotStarted
    /\ rebuild = NoRebuild
    /\ csvRun = NoCsvRun

NextIndex ==
    \/ Startup
    \/ HealthCheck
    \/ GetStats
    \/ Return

SpecIndex == InitIndex /\ [][NextIndex]_vars

----------------------------------------------------------------------------
(* rebuild_database.py: one run of the script on data/corpus.json and      *)
(* data/chroma_db. chroma holds the collections of the directory,          *)
(* rebuild.dbExists whether the directory exists, rebuild.backups the      *)
(* copies made of it.                                                      *)

RebuildCollectionName == "burkinaheritage"

RebuildBatchSize == 100

\* create_database: what collection.add stores for one document
RebuildEntry(doc) ==
    [id |-> <<"", doc.id>>,
     document |-> doc.content,
     metadata |-> [title |-> doc.title, source |-> doc.source,
                   category |-> doc.category]]

\* what the operator may type at the prompt
Answers ==
    { <<>>, <<"oui">>, <<"Oui", SP>>, <<"yes">>, <<"o">>, <<SP, "Y">>, <<"non">>,
      <<"ok">>, <<"n", SP>> }

\* main: an empty answer counts as a yes
ConfirmedByDefault(answer) ==
    StripQ(LowerQ(answer)) \in { <<>>, <<"oui">>, <<"yes">>, <<"o">>, <<"y">> }

\* main: input(...).strip().lower() in ['oui', 'yes', 'o', 'y']
Confirmed(answer) ==
    StripQ(LowerQ(answer)) \in { <<"oui">>, <<"yes">>, <<"o">>, <<"y">> }

\* what data/chroma_db may hold when the script starts
RebuildStores ==
    ExistingStores \cup
    { [c \in {RebuildCollectionName} |-> <<RebuildEntry(DocHuts)>>] }

\* the script starts; the service is not running
InitRebuild ==
    /\ corpusFile \in CorpusFiles
    /\ chroma \in RebuildStores
    /\ \E exists \in BOOLEAN :
         /\ chroma # <<>> => exists
         /\ rebuild = [NoRebuild EXCEPT !.pc = "load", !.dbExists = exists,
                                        !.exists0 = exists, !.db0 = chroma]
    /\ geminiEnv = FALSE
    /\ NotStarted
    /\ csvRun = NoCsvRun

\* every variable of the service, which the script does not touch
RebuildFrame ==
    UNCHANGED <<corpusFile, geminiEnv, serverState, rag_system, askRet,
                pc, req, needs_db, docs, prompt, llmOut, expanded_docs, termIdx,
                searchArgs, storeQueries, llmCalls, resp, probe, libRet, addCalls,
                csvRun>>

\* load_corpus, and main returning when it fails
RebuildLoad ==
    /\ rebuild.pc = "load"
    /\ \/ /\ corpusFile.exists
          /\ rebuild' = [rebuild EXCEPT !.pc = "confirm", !.corpus = corpusFile.docs]
       \/ rebuild' = [rebuild EXCEPT !.pc = "ended"]
    /\ UNCHANGED chroma
    /\ RebuildFrame

\* main: the confirmation prompt
RebuildConfirm(answer) ==
    /\ rebuild.pc = "confirm"
    /\ rebuild' = [rebuild EXCEPT !.answer = answer,
                                  !.pc = IF Confirmed(answer) THEN "backup" ELSE "ended"]
    /\ UNCHANGED chroma
    /\ RebuildFrame

\* backup_existing_db: copytree makes the copy, or raises and the error is
\* printed
RebuildBackup ==
    /\ rebuild.pc = "backup"
    /\ IF rebuild.dbExists
       THEN \/ rebuild' = [rebuild EXCEPT !.backups = Append(@, chroma), !.pc = "delete"]
            \/ rebuild' = [rebuild EXCEPT !.pc = "delete"]
       ELSE rebuild' = [rebuild EXCEPT !.pc = "delete"]
    /\ UNCHANGED chroma
    /\ RebuildFrame

\* delete_existing_db: rmtree removes the directory, or raises and leaves it
RebuildDelete ==
    /\ rebuild.pc = "delete"
    /\ IF rebuild.dbExists
       THEN \/ /\ rebuild' = [rebuild EXCEPT !.dbExists = FALSE, !.deleted = TRUE,
                                             !.pc = "create"]
               /\ chroma' = <<>>
            \/ /\ rebuild' = [rebuild EXCEPT !.pc = "create"]
               /\ UNCHANGED chroma
       ELSE /\ rebuild' = [rebuild EXCEPT !.pc = "create"]
            /\ UNCHANGED chroma
    /\ RebuildFrame

RECURSIVE RebuildBatches(_, _, _)
\* create_database: the entries added, batch after batch, from document i on;
\* failing: the batches whose collection.add raises
RebuildBatches(corpus, i, failing) ==
    IF i > Len(corpus) THEN <<>>
    ELSE LET batch == SubSeq(corpus, i, Min(i + RebuildBatchSize - 1, Len(corpus)))
             num == ((i - 1) \div RebuildBatchSize) + 1
         IN  (IF num \in failing THEN <<>>
              ELSE [j \in 1..Len(batch) |-> RebuildEntry(batch[j])])
             \o RebuildBatches(corpus, i + RebuildBatchSize, failing)

\* create_database and print_statistics: the client cannot be created, or the
\* collection is dropped, created again and filled
RebuildCreate ==
    /\ rebuild.pc = "create"
    /\ \/ /\ rebuild' = [rebuild EXCEPT !.errors = @ + 1, !.pc = "finished"]
          /\ UNCHANGED chroma
       \/ \E failing \in SUBSET {1} :
            LET entries == RebuildBatches(rebuild.corpus, 1, failing)
                batches == (Len(rebuild.corpus) + RebuildBatchSize - 1)
                              \div RebuildBatchSize
            IN  /\ chroma' = [c \in DOMAIN chroma \cup {RebuildCollectionName} |->
                                IF c = RebuildCollectionName THEN entries ELSE chroma[c]]
                /\ rebuild' = [rebuild EXCEPT
                                 !.dbExists = TRUE,
                                 !.added = Len(entries),
                                 !.errors = Cardinality(failing \cap 1..batches),
                                 !.pc = "finished"]
    /\ RebuildFrame

NextRebuild ==
    \/ RebuildLoad
    \/ \E answer \in Answers : RebuildConfirm(answer)
    \/ RebuildBackup
    \/ RebuildDelete
    \/ RebuildCreate

SpecRebuild == InitRebuild /\ [][NextRebuild]_vars

----------------------------------------------------------------------------
(* prepare_data_csv.py: one run of the script. It reads a CSV file of text  *)
(* segments and writes data/corpus.json and data/sources.txt. The texts of *)
(* the rows are made of five-letter words separated by one space, so that  *)
(* a text of w words has 6w - 1 characters.                                *)

MaxRows == 2

MinTextLen == 50

OddRatioNum == 3

OddRatioDen == 10

ChunkWords == 500

ChunkOverlap == 50

MinChunkWords == 50

TitleWords == 10

MaxTitleLen == 100

TitleCut == 97

\* a text of w words under the name v
Words(v, w) == Chunk("words", v, IF w = 0 THEN 0 ELSE 6 * w - 1, w)

\* the rows csv.DictReader may yield, the texte cleaned by clean_text: a
\* sequence of at most one Words chunk; titreLen: the length of titre;
\* odd: how many characters of the text are non-standard; titleWords and
\* textWords: the category keywords the lowered titre and text contain;
\* chinese: the lowered url contains "chinese". In order: a short text
\* under a titre and a url; a text without titre and url; a text of 41
\* characters; a text with more than three non-standard characters in ten;
\* 960 words without a category keyword under a titre of 120 characters
CsvRows ==
    { [id_doc |-> "d1", url |-> "https://patrimoine.bf/mosquee", chinese |-> FALSE,
       titre |-> "Mosquee de Bobo", titreLen |-> 15, segment_id |-> "s1",
       texte |-> <<Words("mosquee", 20)>>, odd |-> 0,
       titleWords |-> {"bobo"}, textWords |-> {"monument", "bobo"}],
      [id_doc |-> "d2", url |-> "", chinese |-> FALSE,
       titre |-> "", titreLen |-> 0, segment_id |-> "s1",
       texte |-> <<Words("danse", 9)>>, odd |-> 0,
       titleWords |-> {}, textWords |-> {"tradition"}],
      [id_doc |-> "d3", url |-> "https://patrimoine.bf/bref", chinese |-> FALSE,
       titre |-> "Bref", titreLen |-> 4, segment_id |-> "s2",
       texte |-> <<Words("bref", 7)>>, odd |-> 0,
       titleWords |-> {}, textWords |-> {"faso"}],
      [id_doc |-> "d4", url |-> "https://exemple.cn/chinese", chinese |-> TRUE,
       titre |-> "Texte", titreLen |-> 5, segment_id |-> "s1",
       texte |-> <<Words("texte", 10)>>, odd |-> 30,
       titleWords |-> {}, textWords |-> {}],
      [id_doc |-> "d5", url |-> "https://patrimoine.bf/recit", chinese |-> FALSE,
       titre |-> "Recit", titreLen |-> 120, segment_id |-> "s3",
       texte |-> <<Words("recit", 960)>>, odd |-> 0,
       titleWords |-> {}, textWords |-> {}] }

RECURSIVE RowLists(_)
RowLists(n) ==
    IF n = 0 THEN { <<>> }
    ELSE RowLists(n - 1) \cup
         { Append(rows, r) : rows \in { l \in RowLists(n - 1) : Len(l) = n - 1 },
                             r \in CsvRows }

\* what the path given to the script may hold: no file, or a file of rows;
\* raises: opening or reading it raises, after the reader has yielded the
\* first `yielded` rows
CsvFiles ==
    { NoCsvRun.csv } \cup
    { [exists |-> TRUE, rows |-> rows, raises |-> FALSE, yielded |-> Len(rows)] :
         rows \in RowLists(MaxRows) } \cup
    UNION { { [exists |-> TRUE, rows |-> rows, raises |-> TRUE, yielded |-> k] :
                 k \in 0..Len(rows) } : rows \in RowLists(MaxRows) }

\* is_valid_text
IsValidText(text, odd) ==
    IF text = <<>> \/ TextLen(text) < MinTextLen THEN FALSE
    ELSE IF odd * OddRatioDen > OddRatioNum * TextLen(text) THEN FALSE
    ELSE TRUE

RECURSIVE ChunkPieces(_, _, _)
\* chunk_text, the loop: the pieces of max_words words taken every
\* max_words - overlap words from word i on, those of more than 50 words kept
ChunkPieces(words, i, max_words) ==
    IF i >= words.w THEN <<>>
    ELSE LET k == Min(max_words, words.w - i)
         IN  (IF k > MinChunkWords
              THEN <<Words(ToString(<<words.v, i, i + k>>), k)>>
              ELSE <<>>)
             \o ChunkPieces(words, i + (max_words - ChunkOverlap), max_words)

\* chunk_text: the chunks of a text, each a text of its own
ChunkText(text, max_words) ==
    IF SumWords(text) <= max_words THEN <<text>>
    ELSE LET pieces == ChunkPieces(text[1], 0, max_words)
         IN  [j \in 1..Len(pieces) |-> <<pieces[j]>>]

\* categorize_document
CategorizeDocument(titleWords, textWords, chinese) ==
    IF (titleWords \cup textWords) \cap {"unesco", "patrimoine", "heritage", "monument"} # {}
    THEN "patrimoine-culturel"
    ELSE IF textWords \cap {"burkina", "faso", "ouagadougou", "bobo"} # {}
    THEN "burkina-faso"
    ELSE IF textWords \cap {"education", "école", "éducation"} # {}
    THEN "éducation"
    ELSE IF textWords \cap {"culture", "tradition", "art"} # {}
    THEN "culture"
    ELSE IF textWords \cap {"museum", "musée"} # {}
    THEN "musées"
    ELSE IF "U+6CD5" \in textWords \/ "U+4E2D U+6587" \in textWords
            \/ chinese
    THEN "autres-langues"
    ELSE "général"

\* process_csv, the body of the loop: the documents one row appends when
\* chunk_id is the next id, one for each chunk of its text
RowDocs(row, chunk_id) ==
    IF ~IsValidText(row.texte, row.odd) THEN <<>>
    ELSE LET chunks == ChunkText(row.texte, ChunkWords)
             n == Len(chunks)
             doc_title(chunk) ==
                 IF row.titre # "" THEN row.titre
                 ELSE ToString(<<chunk[1].v, 0, Min(TitleWords, chunk[1].w)>>)
             len(chunk) ==
                 IF row.titre # "" THEN row.titreLen
                 ELSE 6 * Min(TitleWords, chunk[1].w) - 1
             limited(chunk) ==
                 IF len(chunk) > MaxTitleLen
                 THEN ToString(<<doc_title(chunk), TitleCut, "...">>)
                 ELSE doc_title(chunk)
         IN  [j \in 1..n |->
                 [id |-> chunk_id + j - 1,
                  title |-> IF n > 1
                            THEN ToString(<<limited(chunks[j]), " (partie ", j, ")">>)
                            ELSE limited(chunks[j]),
                  content |-> chunks[j],
                  source |-> IF row.url # "" THEN row.url
                             ELSE ToString(<<"Document ", row.id_doc>>),
                  category |-> CategorizeDocument(row.titleWords, row.textWords,
                                                  row.chinese),
                  word_count |-> SumWords(chunks[j]),
                  metadata |-> [id_doc |-> row.id_doc, url |-> row.url,
                                segment_id |-> row.segment_id,
                                chunk_index |-> IF n > 1 THEN j - 1 ELSE 0]]]

RECURSIVE ReadRows(_, _, _)
\* process_csv, the loop: self.corpus after the rows i.. of rows, from the
\* corpus built so far
ReadRows(rows, i, corpus) ==
    IF i > Len(rows) THEN corpus
    ELSE ReadRows(rows, i + 1, corpus \o RowDocs(rows[i], Len(corpus) + 1))

\* the script starts on a CSV path; the service is not running
InitCsv ==
    /\ corpusFile \in CorpusFiles
    /\ chroma \in ExistingStores
    /\ geminiEnv = FALSE
    /\ NotStarted
    /\ rebuild = NoRebuild
    /\ \E csv \in CsvFiles :
         csvRun = [NoCsvRun EXCEPT !.pc = "process_csv", !.csv = csv,
                                   !.file0 = corpusFile]

\* every variable the script does not touch
CsvFrame ==
    UNCHANGED <<chroma, geminiEnv, serverState, rag_system, askRet,
                pc, req, needs_db, docs, prompt, llmOut, expanded_docs, termIdx,
                searchArgs, storeQueries, llmCalls, resp, probe, libRet, addCalls,
                rebuild>>

\* process_csv: returns when the file is absent; otherwise reads the rows the
\* reader yields, an exception ending the loop with the error printed
ProcessCsv ==
    /\ csvRun.pc = "process_csv"
    /\ IF ~csvRun.csv.exists
       THEN csvRun' = [csvRun EXCEPT !.outcome = "introuvable", !.pc = "save_corpus"]
       ELSE LET read == Take(csvRun.csv.rows, csvRun.csv.yielded)
            IN  csvRun' = [csvRun EXCEPT
                             !.corpus = ReadRows(read, 1, <<>>),
                             !.total_rows = Len(read),
                             !.urls_unique =
                                 { read[i].url : i \in { j \in 1..Len(read) :
                                     /\ IsValidText(read[j].texte, read[j].odd)
                                     /\ read[j].url # "" } },
                             !.outcome = IF csvRun.csv.raises THEN "erreur"
                                         ELSE "termine",
                             !.pc = "save_corpus"]
    /\ UNCHANGED corpusFile
    /\ CsvFrame

\* save_corpus: data/corpus.json is opened for writing and self.corpus dumped
SaveCorpus ==
    /\ csvRun.pc = "save_corpus"
    /\ corpusFile' = File(csvRun.corpus)
    /\ csvRun' = [csvRun EXCEPT !.pc = "save_sources"]
    /\ CsvFrame

\* save_sources and print_statistics: the counts written and the at most 20
\* urls listed
SaveSources ==
    /\ csvRun.pc = "save_sources"
    /\ csvRun' = [csvRun EXCEPT
                    !.sources = <<Len(csvRun.corpus), Cardinality(csvRun.urls_unique)>>,
                    !.pc = "ended"]
    /\ UNCHANGED corpusFile
    /\ CsvFrame

NextCsv ==
    \/ ProcessCsv
    \/ SaveCorpus
    \/ SaveSources

SpecCsv == InitCsv /\ [][NextCsv]_vars

----------------------------------------------------------------------------
(* Properties *)

\* a /api/chat request has been handled and its response is about to be sent
ChatDone == pc = "done" /\ resp.endpoint = "chat"

\* ask has returned to chat
AskReturned == pc = "done" /\ askRet.state = "returned"

\* C1: whatever the search returns and whatever the LLM does, the answer that
\* ask returns is a non-empty string (and sources is a list).
C1_AnswerNonEmpty ==
    AskReturned =>
        /\ TextLen(askRet.result.answer) > 0
        /\ Len(askRet.result.sources) >= 0

\* C2: when the LLM call raises, ask still returns (it raises nothing), and
\* its answer is the error message chosen for the exception, followed by the
\* template fallback text built from the retrieved documents, or by the
\* fixed apology when no document is available (then stripped, with the
\* sources block after it when there are sources).
C2_LlmFailureFallsBack ==
    (pc = "done" /\ llmOut.kind = "raise") =>
        LET err == ErrorMessage(llmOut.markers)
            text == IF docs # <<>>
                    THEN HeaderContext \o FallbackAnswer(docs, req.question)
                    ELSE IF expanded_docs # <<>>
                    THEN HeaderGeneral \o
                         FallbackAnswer(Take(expanded_docs, ExpandKeep), req.question)
                    ELSE <<Ws(2)>> \o SorryNoInformation
            src == askRet.result.sources
            block == IF src # <<>> THEN SourcesHeader \o SourceLines(src) ELSE <<>>
        IN  /\ askRet.state = "returned"
            /\ resp.status = 200
            /\ err # <<>>
            /\ askRet.result.answer = StripText(err \o text) \o block

\* C2's case: the LLM raised while documents had been retrieved, and ask returned
C2_Witness ==
    /\ AskReturned
    /\ llmOut.kind = "raise"
    /\ docs # <<>>

\* C3: while one request is handled the LLM is called at most once: a failed
\* or rejected response is never followed by a second call.
C3_AtMostOneLlmCall ==
    /\ llmCalls <= 1
    /\ (llmOut.kind # "nocall") => (llmCalls = 1 /\ pc # "llm")

\* C3's case: the one LLM call failed and the answer was returned all the same
C3_Witness ==
    /\ AskReturned
    /\ llmOut.kind = "raise"
    /\ llmCalls = 1

\* C4: once the service is initialised, no step of the query path (chat with
\* ask and search_documents, stats, health, clear) changes the loaded corpus,
\* the corpus file or the contents of the vector collection.
C4_QueryPathReadOnly ==
    [][serverState = "serving" =>
          /\ rag_system' = rag_system
          /\ chroma' = chroma
          /\ corpusFile' = corpusFile]_vars

\* C4's case: an initialised service has answered a question after querying
\* a non-empty collection
C4_Witness ==
    /\ serverState = "serving"
    /\ AskReturned
    /\ storeQueries # <<>>
    /\ chroma[CollectionName] # <<>>

\* C5: conversation turns are not carried from one request to another: a
\* service that has since handled other requests, with other conversation
\* histories, builds for the same /api/chat request the same prompt and,
\* given the same store results and the same LLM outcome, returns the same
\* question, answer and sources as it did before.
C5_NoCarryOver ==
    (/\ probe.taken
     /\ ChatDone
     /\ req = probe.req
     /\ storeQueries = probe.storeQueries
     /\ llmOut = probe.llmOut) =>
        /\ prompt = probe.prompt
        /\ resp = probe.resp

\* C5's case: the same request with a two-turn history is answered again
\* after a request with another history was handled in between
C5_Witness ==
    /\ probe.taken
    /\ probe.otherSeen
    /\ ChatDone
    /\ resp.status = 200
    /\ req = probe.req
    /\ Len(req.conversation_history) >= 2
    /\ storeQueries = probe.storeQueries
    /\ llmOut = probe.llmOut
    /\ llmOut.kind = "text"

\* C6: the sources ask returns are at most 3; they are non-empty exactly when
\* the question triggered a database search that returned a document; they
\* are the metadata of the first documents of the search result, in order;
\* and when non-empty the answer ends with the Sources block listing their
\* source references in the same order.
C6_Sources ==
    AskReturned =>
        LET src == askRet.result.sources
            answer == askRet.result.answer
            searched == \E i \in 1..Len(storeQueries) :
                            storeQueries[i].call = "search" /\ ~storeQueries[i].raised
            lines == SourceLines(src)
            tail == SourcesHeader \o lines
        IN  /\ Len(src) <= 3
            /\ (src # <<>>) <=> (searched /\ docs # <<>>)
            /\ Len(src) = Min(3, IF searched THEN Len(docs) ELSE 0)
            /\ \A i \in 1..Len(src) :
                 /\ src[i].title = docs[i].metadata.title
                 /\ src[i].source = docs[i].metadata.source
                 /\ src[i].category = docs[i].metadata.category
            /\ (src # <<>>) =>
                 /\ Len(answer) >= Len(tail)
                 /\ SubSeq(answer, Len(answer) - Len(tail) + 1, Len(answer)) = tail
                 /\ \A i \in 1..Len(src) : lines[2 * i - 1].v = src[i].source

\* C6's case: the search returned four documents and three sources are cited
C6_Witness ==
    /\ AskReturned
    /\ Len(docs) = 4
    /\ Len(askRet.result.sources) = 3

\* C7: a /api/chat request with use_llm = false never calls the LLM.
C7_NoLlmWithoutUseLlm ==
    (ChatDone /\ ~req.use_llm) => llmCalls = 0

\* C8: the search of a /api/chat request is made for the request's n_results.
C8_SearchFollowsNResults ==
    (ChatDone /\ searchArgs # NoSearch) => searchArgs.n_results = req.n_results

\* C9: /api/chat answers 503 when the RAG system is not initialised, else 400
\* when the stripped question has fewer than 3 characters, ask being invoked
\* in neither case; an exception of ask is answered 500; otherwise the
\* response carries the request's question unchanged and the answer and
\* sources of ask.
C9_ChatStatus ==
    ChatDone =>
        IF ~rag_system.initialized
        THEN resp.status = 503 /\ askRet.state = "notcalled"
        ELSE IF QLen(StripQ(req.question)) < 3
        THEN resp.status = 400 /\ askRet.state = "notcalled"
        ELSE IF askRet.state = "raised"
        THEN resp.status = 500
        ELSE /\ askRet.state = "returned"
             /\ resp.status = 200
             /\ resp.body.question = req.question
             /\ resp.body.answer = askRet.result.answer
             /\ resp.body.sources = askRet.result.sources

\* C9's case: a question of three characters, two of them spaces, is refused
C9_Witness ==
    /\ ChatDone
    /\ resp.status = 400
    /\ QLen(req.question) >= 3

\* C10 as stated: with the corpus file missing, the service still comes up
\* and serves with the RAG system uninitialised.
C10_ServesWithoutCorpus ==
    (~corpusFile.exists /\ serverState # "created") =>
        (serverState = "serving" /\ ~rag_system.initialized)

\* C10 amended: with the corpus file missing, startup fails: the RAG system
\* stays uninitialised and no request is handled afterwards. The handlers
\* answer 503 (chat, stats) and status "error" with rag_initialized false
\* and total_documents 0 (health) whenever they run while rag_system is
\* None, which is only before startup.
C10_StartupFails ==
    /\ (~corpusFile.exists /\ serverState # "created") =>
          /\ serverState = "failed"
          /\ ~rag_system.initialized
          /\ pc = "idle"
          /\ resp = NoResponse
    /\ (pc = "done" /\ ~rag_system.initialized) =>
          /\ serverState = "created"
          /\ resp.endpoint \in {"chat", "stats"} => resp.status = 503
          /\ resp.endpoint = "health" =>
                /\ resp.body.status = "error"
                /\ ~resp.body.rag_initialized
                /\ resp.body.total_documents = 0

\* C10's case: the corpus file was missing and startup has run
C10_Witness ==
    /\ ~corpusFile.exists
    /\ serverState = "failed"

C12_PromptTemplate ==
    prompt # NoPrompt =>
        /\ prompt.has_context = (Len(docs) >= 1)
        /\ Len(prompt.context) = Min(Len(docs), 3)
        /\ \A i \in 1..Len(prompt.context) :
              prompt.context[i] = Cut(docs[i].content, ContextContentCut)
        /\ prompt.has_history = (Len(req.conversation_history) >= 2)
        /\ ~prompt.has_history => prompt.history = <<>>

\* C12's case: four documents retrieved, three of them in the prompt, with a
\* history section
C12_Witness ==
    /\ prompt # NoPrompt
    /\ Len(docs) = 4
    /\ Len(prompt.context) = 3
    /\ prompt.has_context
    /\ prompt.has_history

\* C13: in a confirmed run of rebuild_database the old database directory is
\* deleted only after a backup copy of it has been made: whenever the old
\* directory is gone, a backup of it exists.
C13_DeleteAfterBackup ==
    rebuild.deleted =>
        /\ rebuild.backups # <<>>
        /\ rebuild.backups[Len(rebuild.backups)] = rebuild.db0

\* C14: when the corpus cannot be loaded, or the answer to the confirmation
\* prompt (stripped, lower-cased) is not one of oui/yes/o/y, the run ends with
\* no backup made, nothing deleted and no collection created: the database
\* directory is as it was.
C14_NothingWithoutConfirmation ==
    (/\ rebuild.pc # "off"
     /\ \/ rebuild.pc \in {"load", "confirm"}
        \/ rebuild.pc = "ended"
        \/ StripQ(LowerQ(rebuild.answer)) \notin { <<"oui">>, <<"yes">>, <<"o">>, <<"y">> }) =>
        /\ rebuild.backups = <<>>
        /\ ~rebuild.deleted
        /\ rebuild.dbExists = rebuild.exists0
        /\ chroma = rebuild.db0
        /\ rebuild.added = 0

\* C14's case: the corpus was loaded, the operator answered something else
\* than a yes, and the run has ended on an existing database
C14_Witness ==
    /\ rebuild.pc = "ended"
    /\ rebuild.corpus # <<>>
    /\ rebuild.answer = <<"non">>
    /\ rebuild.exists0
    /\ chroma # <<>>

\* C15: the history placed in the prompt is the slice [-7:-1] of the supplied
\* turns: the turns before the last one, the 6 latest of them at most, in
\* their order, and none when fewer than 2 turns are supplied.
C15_HistorySlice ==
    prompt # NoPrompt =>
        LET h == req.conversation_history
            kept == IF Len(h) < 2 THEN 0 ELSE Min(Len(h) - 1, 6)
            first == Len(h) - kept
        IN  /\ Len(prompt.history) = kept
            /\ \A i \in 1..Len(prompt.history) :
                  /\ prompt.history[i].content =
                        Cut(h[first + i - 1].content, HistoryContentCut)
                  /\ prompt.history[i].role =
                        IF h[first + i - 1].role = "user" THEN "Utilisateur"
                        ELSE "Assistant"

\* C15's case: 8 turns supplied, the 2nd to the 7th of them in the prompt
C15_Witness ==
    /\ prompt # NoPrompt
    /\ Len(req.conversation_history) = 8
    /\ Len(prompt.history) = 6
    /\ prompt.history[1].content = req.conversation_history[2].content
    /\ prompt.history[6].content = req.conversation_history[7].content

\* C16: a question that, lower-cased and stripped, is one of the simple
\* greetings and is sent through POST /api/chat to an initialised service gets
\* the fixed greeting answer with no sources, and neither the vector store is
\* queried nor the LLM called for it.
C16_GreetingReply ==
    (/\ ChatDone
     /\ rag_system.initialized
     /\ StripQ(LowerQ(req.question)) \in
            { <<"bonjour">>, <<"salut">>, <<"bonsoir">>, <<"coucou">>, <<"hey">>,
              <<"hello">>, <<"hi">> }) =>
        /\ storeQueries = <<>>
        /\ llmCalls = 0
        /\ resp.status = 200
        /\ resp.body.answer = GreetingAnswer
        /\ resp.body.sources = <<>>

\* C17: while a conversational question, one with none of the keywords of
\* _needs_database_search, is handled, the vector store is never queried, and
\* the sources returned for it are empty.
C17_ConversationalNoSearch ==
    (/\ req # NoRequest
     /\ askRet.state # "notcalled"
     /\ ~NeedsDatabaseSearch(req.question)) =>
        /\ storeQueries = <<>>
        /\ askRet.state = "returned" => askRet.result.sources = <<>>

\* C18: the text of an LLM response is returned as the answer exactly when,
\* stripped, it has more than 30 characters; a shorter or empty one is dropped
\* and the template fallback answer is returned, with no error message before
\* it.
C18_LlmAnswerThreshold ==
    (AskReturned /\ llmOut.kind = "text") =>
        LET text == StripText(llmOut.text)
            sources == askRet.result.sources
            fallback ==
                IF docs # <<>> THEN FallbackAnswer(docs, req.question)
                ELSE IF expanded_docs # <<>>
                THEN FallbackAnswer(Take(expanded_docs, 5), req.question)
                ELSE SorryNoInformation
        IN  IF TextLen(text) > 30
            THEN askRet.result.answer = AnswerWithSources(text, sources)
            ELSE askRet.result.answer = AnswerWithSources(fallback, sources)

\* C18's case: an LLM text of exactly 30 characters once stripped, dropped for
\* the fallback answer built from the retrieved documents
C18_Witness ==
    /\ AskReturned
    /\ llmOut.kind = "text"
    /\ TextLen(StripText(llmOut.text)) = 30
    /\ docs # <<>>
    /\ askRet.result.answer =
          AnswerWithSources(FallbackAnswer(docs, req.question), askRet.result.sources)

\* C19: _fallback_answer keeps at most 4 sentences, of at most 250 words in
\* all, pairwise distinct, each of 25 characters or more, taken from the first
\* 3 documents in document order; the string it returns has at most 600
\* characters.
C19_FallbackBounds ==
    libRet.fn = "_fallback_answer" =>
        LET kept == libRet.kept
            best == 1..Min(3, Len(libRet.docs))
            SentencesOf(d) ==
                { libRet.docs[d].content[j] : j \in 1..Len(libRet.docs[d].content) }
        IN  /\ Len(kept) <= 4
            /\ SumWords(kept) <= 250
            /\ \A i, j \in 1..Len(kept) : i # j => kept[i] # kept[j]
            /\ \A i \in 1..Len(kept) : kept[i].n >= 25
            /\ \E from \in [1..Len(kept) -> best] :
                  /\ \A i \in 1..Len(kept) : kept[i] \in SentencesOf(from[i])
                  /\ \A i, j \in 1..Len(kept) : i < j => from[i] <= from[j]
            /\ TextLen(libRet.text) <= 600

\* C19's case: four documents given, four sentences kept from the first three,
\* and the answer cut to 600 characters
C19_Witness ==
    /\ libRet.fn = "_fallback_answer"
    /\ Len(libRet.docs) = 4
    /\ Len(libRet.kept) = 4
    /\ libRet.kept[1] # libRet.kept[4]
    /\ TextLen(libRet.text) = 600

C21_FallbackTextIsCited ==
    AskReturned =>
        LET answer == askRet.result.answer
            sources == askRet.result.sources
            stored == chroma[CollectionName]
            Taken(c) == c.k \in {"sent", "sentp"}
            HeldBy(c, e) == \E j \in 1..Len(e.document) : e.document[j] = c
        IN  \A i \in 1..Len(answer) :
                Taken(answer[i]) =>
                    /\ sources # <<>>
                    /\ \E k \in 1..Len(sources), e \in 1..Len(stored) :
                          /\ stored[e].metadata = sources[k]
                          /\ HeldBy(answer[i], stored[e])

\* C22: when the CSV file is missing or cannot be read, a run of
\* prepare_data_csv leaves an existing data/corpus.json as it found it.
C22_CorpusKeptWithoutCsv ==
    (/\ csvRun.pc # "off"
     /\ csvRun.file0.exists
     /\ ~csvRun.csv.exists \/ csvRun.csv.raises) =>
        corpusFile = csvRun.file0

====
